---------------------------- MODULE Spec2Model ----------------------------
(***************************************************************************)
(* A model of src/health_app_py.py: the HealthMonitor pipeline             *)
(* (generate_sample_data, detect_anomalies, generate_health_insights,      *)
(* calculate_health_score) and the dashboard script main() that drives it  *)
(* from a Streamlit session.                                               *)
(*                                                                         *)
(* Numbers.  Floats are modelled in fixed point.  While a dataset is being *)
(* generated every signal is held in thousandths ("milli"); in a finished  *)
(* dataset heart_rate and steps are integers (astype(int)) and the four    *)
(* round(1) columns are held in tenths.  Time is in minutes.               *)
(*                                                                         *)
(* Library code.  numpy's Mersenne Twister, seeded with 42 on every call,  *)
(* is modelled by a counter-based generator: the k-th draw after seeding   *)
(* is a fixed function of the seed and k.  sklearn's IsolationForest is    *)
(* modelled as an ensemble of depth-one random partitions that is rebuilt  *)
(* from its integer random_state on every fit.                             *)
(*                                                                         *)
(* Specifications.  Spec is the pipeline called directly on generated      *)
(* data; PureSpec applies the scorer and the insight rules to datasets     *)
(* drawn from the ends of the field domains; SessionSpec is the dashboard  *)
(* script over one st.session_state.                                       *)
(***************************************************************************)
EXTENDS Integers, Sequences, FiniteSets, TLC

VARIABLES now,        \* the wall clock, datetime.now(), in minutes
          data,       \* the dataset the caller holds (a DataFrame), or NoData
          monitor,    \* the HealthMonitor object's fitted state
          last,       \* the last core call: its arguments, locals and result
          session,    \* st.session_state of the dashboard
          pc,         \* the dashboard script's position
          event       \* the widget event the running script was started by

vars == <<now, data, monitor, last, session, pc, event>>

---------------------------------------------------------------------------
(* Bounds of the model *)

MaxTicks == 2          \* clock ticks of TickMinutes each
MaxLoadedRows == 2     \* rows of a dataset supplied by the caller
NTrees == 3            \* trees of the modelled isolation ensemble
MaxSliderDays == 8     \* the "Days of data" slider, explored from its minimum
MaxDays == 3           \* days of a direct generate_sample_data call

(* Program constants *)

Seed == 42
DetectorSeed == 42
DefaultDays == 30
DefaultSamplesPerDay == 24
SliderMinDays == 7

MinutesPerDay == 24 * 60
TickMinutes == 7 * 60
Epoch == 400 * MinutesPerDay

NoData == [kind |-> "none"]
NoCall == [op |-> "none"]
NoMonitor == [kind |-> "none"]
NoSession == [has_monitor |-> FALSE, real_time |-> "unset"]

---------------------------------------------------------------------------
(* numpy.random after np.random.seed(42): the k-th draw, in 0..RandMod-1 *)

RandMod == 30011

Mix(x) == ((x % RandMod) * 7919 + 12345) % RandMod

Draw(seed, k) == Mix(Mix(seed + k) + ((k * k) % RandMod))

\* the k-th variate drawn after seeding: a uniform integer in 0..m-1
Uniform(seed, k, m) == Draw(seed, 3 * k) % m

\* np.random.normal(0, 1) as the k-th variate, in thousandths: the sum of
\* three uniform draws on [-1, 1], of mean 0 and variance 1, within 3 sigma
Normal(seed, k) ==
    (Draw(seed, 3 * k) % 2001) + (Draw(seed, 3 * k + 1) % 2001)
        + (Draw(seed, 3 * k + 2) % 2001) - 3000

\* a sequence given as a function on 1..n, as the tuple of its values
Tuple(f, n) == SubSeq(f, 1, n)

Abs(x) == IF x < 0 THEN -x ELSE x
Max(a, b) == IF a >= b THEN a ELSE b
Min(a, b) == IF a <= b THEN a ELSE b

\* np.clip(x, lo, hi)
Clip(x, lo, hi) == Max(lo, Min(x, hi))

\* ndarray.round(1) of a non-negative value in thousandths, in tenths:
\* numpy rounds half to even
Round1(m) ==
    LET q == m \div 100
        r == m % 100
    IN  IF r < 50 THEN q
        ELSE IF r > 50 THEN q + 1
        ELSE IF q % 2 = 0 THEN q ELSE q + 1

\* ndarray.astype(int) of a value in thousandths: truncation toward zero
AsInt(m) == IF m >= 0 THEN m \div 1000 ELSE -((-m) \div 1000)

\* 1000 * sin(q * pi / 12) for an hour offset q
SinTable == <<0, 259, 500, 707, 866, 966, 1000, 966, 866, 707, 500, 259>>

Sin1000(q) ==
    LET a == q % 24
    IN  IF a < 12 THEN SinTable[a + 1] ELSE -SinTable[a - 12 + 1]

---------------------------------------------------------------------------
(* HealthMonitor.generate_sample_data *)

\* total_samples = days * samples_per_day
TotalSamples(days, samples_per_day) == days * samples_per_day

OutlierCountCeil(total) == (total + 19) \div 20

\* int(0.05 * total_samples): the float product is truncated, and is exact at
\* every multiple of 20 in range, so this is the integer quotient
OutlierCount(total) == total \div 20

\* pd.date_range(start, end, periods): evenly spaced, both ends included
Timestamp(i, total, days, t) ==
    LET start == t - days * MinutesPerDay
    IN  IF total = 1 THEN start
        ELSE start + (i * (t - start)) \div (total - 1)

\* t.hour
HourOf(ts) == (ts \div 60) % 24

RECURSIVE Probe(_, _, _)
Probe(idx, chosen, n) ==
    IF idx \notin chosen THEN idx ELSE Probe((idx + 1) % n, chosen, n)

\* np.random.choice(n, size=k, replace=False): k distinct indices of 0..n-1,
\* drawn from position base of the stream
RECURSIVE ChoiceNoReplace(_, _, _, _, _)
ChoiceNoReplace(n, k, base, j, acc) ==
    IF j = k THEN acc
    ELSE LET chosen == {acc[p] : p \in 1..Len(acc)}
             idx == Probe(Uniform(Seed, base + j, n), chosen, n)
         IN  ChoiceNoReplace(n, k, base, j + 1, Append(acc, idx))

\* the position of row index i in anomaly_indices, 0 when it is not selected
PosIn(indices, i) ==
    IF \E p \in 1..Len(indices) : indices[p] = i
    THEN CHOOSE p \in 1..Len(indices) : indices[p] = i
    ELSE 0

\* np.random.choice([-20, 30]) for the p-th selected index, in thousandths
HeartShift(total, k, p) ==
    IF Uniform(Seed, 6 * total + k + (p - 1), 2) = 0 THEN -20000 ELSE 30000

\* np.random.randint(5, 15) for the p-th selected index: 5..14, in thousandths
OxygenDrop(total, k, p) ==
    (5 + Uniform(Seed, 6 * total + 2 * k + (p - 1), 10)) * 1000

\* heart_rate[anomaly_indices] += ...: the clipped signal is shifted and
\* not clipped again
ShiftHeartRate(hr, shift) == hr + shift

\* blood_oxygen[anomaly_indices] -= ...
DropBloodOxygen(bo, drop) == bo - drop

\* row i (from 0) of the DataFrame that is returned
SampleRow(i, total, days, t, indices) ==
    LET ts    == Timestamp(i, total, days, t)
        h     == HourOf(ts)
        k     == Len(indices)
        p     == PosIn(indices, i)
        hr0   == Clip(70000 + 10 * Sin1000(h - 6) + 5 * Normal(Seed, i),
                      50000, 120000)
        bo0   == Clip(98000 + Normal(Seed, total + i), 85000, 100000)
        st    == Max(0, 500000 + 300 * Sin1000(h - 12)
                        + 100 * Normal(Seed, 2 * total + i))
        sq    == Clip(7000 + 2 * Sin1000(h - 2)
                        + Normal(Seed, 3 * total + i) \div 2, 0, 10000)
        sl    == Clip(10000 - sq + Normal(Seed, 4 * total + i), 0, 10000)
        bt    == Clip(98600 + Normal(Seed, 5 * total + i) \div 2, 96000, 102000)
        hr    == IF p = 0 THEN hr0 ELSE ShiftHeartRate(hr0, HeartShift(total, k, p))
        bo    == IF p = 0 THEN bo0 ELSE DropBloodOxygen(bo0, OxygenDrop(total, k, p))
    IN  [timestamp        |-> ts,
         heart_rate       |-> AsInt(hr),
         blood_oxygen     |-> Round1(bo),
         steps            |-> AsInt(st),
         sleep_quality    |-> Round1(sq),
         stress_level     |-> Round1(sl),
         body_temperature |-> Round1(bt)]

\* The call's outcome: an exception when the library refuses a negative
\* number of periods (line 75), and otherwise the DataFrame, with the local
\* anomaly_indices kept beside it.  No argument is validated by the method.
GenerateSampleData(days, samples_per_day, t) ==
    LET total == TotalSamples(days, samples_per_day)
    IN  IF total < 0
        THEN [op |-> "generate", days |-> days, samples_per_day |-> samples_per_day,
              raised |-> TRUE, total |-> total, anomaly_indices |-> <<>>,
              ret |-> NoData]
        ELSE LET k       == OutlierCount(total)
                 indices == ChoiceNoReplace(total, k, 6 * total, 0, <<>>)
             IN  [op |-> "generate", days |-> days,
                  samples_per_day |-> samples_per_day,
                  raised |-> FALSE, total |-> total, anomaly_indices |-> indices,
                  ret |-> [kind |-> "frame",
                           rows |-> Tuple([i \in 1..total |->
                                       SampleRow(i - 1, total, days, t, indices)],
                                          total),
                           has_anomaly |-> FALSE,
                           anomaly |-> <<>>]]

---------------------------------------------------------------------------
(* HealthMonitor.__init__ and HealthMonitor.detect_anomalies *)

\* contamination=0.1, as the numerator of a fraction of ten
ContaminationTenths == 1

\* StandardScaler() and IsolationForest(contamination=0.1, random_state=42),
\* both unfitted; is_trained is set here and never again
NewMonitor ==
    [scaler    |-> [fitted |-> FALSE, n |-> 0, sums |-> <<>>],
     detector  |-> [fitted |-> FALSE, trees |-> <<>>, offset10 |-> 0],
     is_trained |-> FALSE]

\* features = ['heart_rate', ..., 'body_temperature']: the six raw columns,
\* and neither the timestamp nor an anomaly column
Features(d, i) ==
    LET r == d.rows[i]
    IN  <<r.heart_rate, r.blood_oxygen, r.steps, r.sleep_quality,
          r.stress_level, r.body_temperature>>

\* X = data[features].values
FeatureMatrix(d) == Tuple([i \in 1..Len(d.rows) |-> Features(d, i)], Len(d.rows))

\* the sum, the minimum and the maximum of column f over rows lo..hi,
\* by halves
RECURSIVE ColSum(_, _, _, _)
ColSum(X, f, lo, hi) ==
    IF lo = hi THEN X[lo][f]
    ELSE LET mid == (lo + hi) \div 2
         IN  ColSum(X, f, lo, mid) + ColSum(X, f, mid + 1, hi)

RECURSIVE ColMin(_, _, _, _)
ColMin(X, f, lo, hi) ==
    IF lo = hi THEN X[lo][f]
    ELSE LET mid == (lo + hi) \div 2
         IN  Min(ColMin(X, f, lo, mid), ColMin(X, f, mid + 1, hi))

RECURSIVE ColMax(_, _, _, _)
ColMax(X, f, lo, hi) ==
    IF lo = hi THEN X[lo][f]
    ELSE LET mid == (lo + hi) \div 2
         IN  Max(ColMax(X, f, lo, mid), ColMax(X, f, mid + 1, hi))

\* StandardScaler.fit: the column means, kept as the column sums over n
ScalerFit(X) ==
    [fitted |-> TRUE, n |-> Len(X),
     sums |-> Tuple([f \in 1..Len(X[1]) |-> ColSum(X, f, 1, Len(X))], Len(X[1]))]

\* StandardScaler.transform: (x - mean) / std, held as n * (x - mean).  That
\* is the scaled value times a positive factor per column (n * std, and the
\* scaler divides by 1 where std is 0), which the partitions below, placed
\* relative to each column's range, do not see.
ScalerTransform(sc, X) ==
    Tuple([i \in 1..Len(X) |->
             Tuple([f \in 1..Len(X[1]) |-> sc.n * X[i][f] - sc.sums[f]], Len(X[1]))],
          Len(X))

\* one random partition: a feature and a cut between its min and max
TreeFit(XS, seed, t) ==
    LET f  == 1 + Uniform(seed, 2 * t, Len(XS[1]))
        u  == 1 + Uniform(seed, 2 * t + 1, 99)
        mn == ColMin(XS, f, 1, Len(XS))
        mx == ColMax(XS, f, 1, Len(XS))
        left == Cardinality({i \in 1..Len(XS) : (XS[i][f] - mn) * 100 < u * (mx - mn)})
    IN  [f |-> f, u |-> u, mn |-> mn, mx |-> mx,
         small |-> IF 2 * left <= Len(XS) THEN "left" ELSE "right"]

\* whether the partition puts the row on its smaller side
Isolated(tree, x) ==
    LET isLeft == (x[tree.f] - tree.mn) * 100 < tree.u * (tree.mx - tree.mn)
    IN  (tree.small = "left") = isLeft

\* score_samples: the lower, the more isolated
ScoreSample(trees, x) ==
    -Cardinality({t \in 1..Len(trees) : Isolated(trees[t], x)})

\* the r-th smallest (from 0) of the scores, which lie in -NTrees..0
OrderStat(scores, r) ==
    CHOOSE v \in -NTrees..0 :
        /\ Cardinality({i \in 1..Len(scores) : scores[i] <= v}) >= r + 1
        /\ Cardinality({i \in 1..Len(scores) : scores[i] < v}) <= r

\* np.percentile(scores, 100 * contamination), times ten: linear
\* interpolation at position contamination * (n - 1)
Offset10(scores) ==
    LET n  == Len(scores)
        lo == (ContaminationTenths * (n - 1)) \div 10
        fr == (ContaminationTenths * (n - 1)) % 10
        a  == OrderStat(scores, lo)
        b  == IF lo + 1 < n THEN OrderStat(scores, lo + 1) ELSE a
    IN  10 * a + fr * (b - a)

\* IsolationForest.fit with an integer random_state: the generator is
\* created anew from the seed, so nothing of an earlier fit is read
DetectorFit(XS, seed) ==
    LET trees  == Tuple([t \in 1..NTrees |-> TreeFit(XS, seed, t)], NTrees)
        scores == Tuple([i \in 1..Len(XS) |-> ScoreSample(trees, XS[i])], Len(XS))
    IN  [fitted |-> TRUE, trees |-> trees, offset10 |-> Offset10(scores)]

\* IsolationForest.predict(X) == -1
DetectorPredict(det, XS) ==
    Tuple([i \in 1..Len(XS) |-> 10 * ScoreSample(det.trees, XS[i]) < det.offset10],
          Len(XS))

\* data['anomaly'] = (anomalies == -1): the column is set, replacing one
\* that is there; the other columns are not touched
SetAnomaly(d, flags) == [d EXCEPT !.has_anomaly = TRUE, !.anomaly = flags]

\* the scaled matrix written back over the six feature columns
DetectAnomaliesScaledInPlace(d, m) ==
    LET X   == FeatureMatrix(d)
        sc  == ScalerFit(X)
        XS  == ScalerTransform(sc, X)
        det == DetectorFit(XS, DetectorSeed)
        scaled == Tuple([i \in 1..Len(d.rows) |->
                          [d.rows[i] EXCEPT !.heart_rate = XS[i][1],
                                            !.blood_oxygen = XS[i][2],
                                            !.steps = XS[i][3],
                                            !.sleep_quality = XS[i][4],
                                            !.stress_level = XS[i][5],
                                            !.body_temperature = XS[i][6]]],
                        Len(d.rows))
    IN  [data    |-> SetAnomaly([d EXCEPT !.rows = scaled], DetectorPredict(det, XS)),
         monitor |-> [m EXCEPT !.scaler = sc, !.detector = det]]

\* the forest's generator carried over from the fit before, as with a
\* RandomState object for random_state: a refit draws on from where the
\* earlier fit stopped
DetectAnomaliesCarriedRng(d, m) ==
    LET X   == FeatureMatrix(d)
        sc  == ScalerFit(X)
        XS  == ScalerTransform(sc, X)
        det == DetectorFit(XS, IF m.detector.fitted
                               THEN DetectorSeed + 2 * NTrees + 2
                               ELSE DetectorSeed)
    IN  [data    |-> SetAnomaly(d, DetectorPredict(det, XS)),
         monitor |-> [m EXCEPT !.scaler = sc, !.detector = det]]

\* detect_anomalies on a non-empty frame: the frame and the monitor after it
DetectAnomalies(d, m) ==
    LET X   == FeatureMatrix(d)
        sc  == ScalerFit(X)
        XS  == ScalerTransform(sc, X)
        det == DetectorFit(XS, DetectorSeed)
    IN  [data    |-> SetAnomaly(d, DetectorPredict(det, XS)),
         monitor |-> [m EXCEPT !.scaler = sc, !.detector = det]]

---------------------------------------------------------------------------
(* HealthMonitor.generate_health_insights *)

\* data[fld].sum(), by halves; the mean is this over the number of rows
RECURSIVE SumField(_, _, _, _)
SumField(rows, fld, lo, hi) ==
    IF lo = hi THEN rows[lo][fld]
    ELSE LET mid == (lo + hi) \div 2
         IN  SumField(rows, fld, lo, mid) + SumField(rows, fld, mid + 1, hi)

\* data.iloc[-1]
Latest(d) == d.rows[Len(d.rows)]

\* latest > avg_hr + 20 / latest < avg_hr - 15, with avg = sum / n
HeartRateInsight(d) ==
    LET n == Len(d.rows)
        s == SumField(d.rows, "heart_rate", 1, n)
        x == Latest(d).heart_rate
    IN  IF x * n > s + 20 * n THEN <<"hr_elevated">>
        ELSE IF x * n < s - 15 * n THEN <<"hr_great">>
        ELSE <<>>

\* the healthy message appended without the else
OxygenInsightNoElse(d) ==
    IF Latest(d).blood_oxygen < 950 THEN <<"oxygen_low", "oxygen_healthy">>
    ELSE <<"oxygen_healthy">>

\* blood_oxygen < 95, else healthy
OxygenInsight(d) ==
    IF Latest(d).blood_oxygen < 950 THEN <<"oxygen_low">>
    ELSE <<"oxygen_healthy">>

\* steps < avg_steps * 0.7 / steps > avg_steps * 1.3
ActivityInsight(d) ==
    LET n == Len(d.rows)
        s == SumField(d.rows, "steps", 1, n)
        x == Latest(d).steps
    IN  IF x * n * 10 < s * 7 THEN <<"activity_low">>
        ELSE IF x * n * 10 > s * 13 THEN <<"activity_great">>
        ELSE <<>>

\* sleep_quality < 6 / > 8
SleepInsight(d) ==
    IF Latest(d).sleep_quality < 60 THEN <<"sleep_poor">>
    ELSE IF Latest(d).sleep_quality > 80 THEN <<"sleep_excellent">>
    ELSE <<>>

\* stress_level > 7 / < 4
StressInsight(d) ==
    IF Latest(d).stress_level > 70 THEN <<"stress_high">>
    ELSE IF Latest(d).stress_level < 40 THEN <<"stress_managed">>
    ELSE <<>>

GenerateHealthInsights(d) ==
    HeartRateInsight(d) \o OxygenInsight(d) \o ActivityInsight(d)
        \o SleepInsight(d) \o StressInsight(d)

---------------------------------------------------------------------------
(* HealthMonitor.calculate_health_score: sub-scores in thousandths *)

HrScore(r)       == Max(0, 100000 - Abs(r.heart_rate - 70) * 2000)
OxygenScoreUncapped(r) == r.blood_oxygen * 102
OxygenScore(r)   == Min(100000, r.blood_oxygen * 102)
ActivityScore(r) == Min(100000, r.steps * 100)
SleepScore(r)    == r.sleep_quality * 1000
StressScoreNotInverted(r) == r.stress_level * 1000
StressScore(r)   == (100 - r.stress_level) * 1000
TempScore(r)     == Max(0, 100000 - Abs(r.body_temperature - 986) * 1000)

\* weights = [0.2, 0.2, 0.15, 0.2, 0.15, 0.1], in hundredths
Weights == <<20, 20, 15, 20, 15, 10>>

Scores(r) ==
    <<HrScore(r), OxygenScore(r), ActivityScore(r),
      SleepScore(r), StressScore(r), TempScore(r)>>

\* sum(w * s for w, s in zip(weights, scores)), in hundred-thousandths
WeightedSum(w, s) ==
    w[1] * s[1] + w[2] * s[2] + w[3] * s[3] + w[4] * s[4] + w[5] * s[5] + w[6] * s[6]

\* round(x, 1) of a value in hundred-thousandths, in tenths: half to even
RoundScore(v) ==
    LET q == v \div 10000
        r == v % 10000
    IN  IF r < 5000 THEN q
        ELSE IF r > 5000 THEN q + 1
        ELSE IF q % 2 = 0 THEN q ELSE q + 1

CalculateHealthScore(d) == RoundScore(WeightedSum(Weights, Scores(Latest(d))))

---------------------------------------------------------------------------
(* The pipeline called directly: a caller holds one HealthMonitor and the   *)
(* dataset it got from generate_sample_data.                                *)

\* arguments a caller passes to generate_sample_data: whole days at the
\* default rate, a single sample, and each way of passing a non-positive one
GenerateArgs ==
    {<<d, DefaultSamplesPerDay>> : d \in 0..MaxDays}
        \cup {<<1, 1>>, <<1, 0>>, <<-1, DefaultSamplesPerDay>>, <<-1, -1>>}

IsFrame(d) == d.kind = "frame"

Init ==
    /\ now = Epoch
    /\ data = NoData
    /\ monitor = NewMonitor
    /\ last = NoCall
    /\ session = NoSession
    /\ pc = "off"
    /\ event = "none"

\* time passes between two calls
Tick ==
    /\ now < Epoch + MaxTicks * TickMinutes
    /\ now' = now + TickMinutes
    /\ UNCHANGED <<data, monitor, last, session, pc, event>>

\* data = monitor.generate_sample_data(days, samples_per_day)
Generate(days, samples_per_day) ==
    /\ last' = GenerateSampleData(days, samples_per_day, now)
    /\ data' = IF last'.raised THEN data ELSE last'.ret
    /\ UNCHANGED <<now, monitor, session, pc, event>>

\* data = monitor.detect_anomalies(data); the libraries refuse an empty matrix
Detect ==
    /\ IsFrame(data)
    /\ IF Len(data.rows) = 0
       THEN /\ last' = [op |-> "detect", raised |-> TRUE]
            /\ UNCHANGED <<data, monitor>>
       ELSE LET r == DetectAnomalies(data, monitor)
            IN  /\ data' = r.data
                /\ monitor' = r.monitor
                /\ last' = [op |-> "detect", raised |-> FALSE,
                             had_anomaly |-> data.has_anomaly]
    /\ UNCHANGED <<now, session, pc, event>>

\* monitor.calculate_health_score(data); iloc[-1] raises on an empty frame
Score ==
    /\ IsFrame(data)
    /\ last' = IF Len(data.rows) = 0
               THEN [op |-> "score", raised |-> TRUE]
               ELSE [op |-> "score", raised |-> FALSE,
                     value |-> CalculateHealthScore(data)]
    /\ UNCHANGED <<now, data, monitor, session, pc, event>>

\* monitor.generate_health_insights(data)
Insights ==
    /\ IsFrame(data)
    /\ last' = IF Len(data.rows) = 0
               THEN [op |-> "insights", raised |-> TRUE]
               ELSE [op |-> "insights", raised |-> FALSE,
                     value |-> GenerateHealthInsights(data)]
    /\ UNCHANGED <<now, data, monitor, session, pc, event>>

Next ==
    \/ Tick
    \/ \E a \in GenerateArgs : Generate(a[1], a[2])
    \/ Detect
    \/ Score
    \/ Insights

Spec == Init /\ [][Next]_vars

---------------------------------------------------------------------------
(* The scorer and the insight rules as functions of a dataset: the dataset  *)
(* is any the caller may hold, drawn here from the ends of every field's    *)
(* domain, the sample of the scoring scenario and a sample of an earlier    *)
(* hour.                                                                    *)

ScenarioRow ==
    [heart_rate |-> 70, blood_oxygen |-> 980, steps |-> 1000,
     sleep_quality |-> 80, stress_level |-> 30, body_temperature |-> 986]

EarlierRow ==
    [heart_rate |-> 95, blood_oxygen |-> 940, steps |-> 400,
     sleep_quality |-> 55, stress_level |-> 75, body_temperature |-> 991]

LatestRows ==
    [heart_rate : {50, 70, 120}, blood_oxygen : {850, 980, 1000},
     steps : {0, 1000, 2000}, sleep_quality : {0, 80, 100},
     stress_level : {0, 30, 100}, body_temperature : {960, 986, 1020}]

EarlierRows == {ScenarioRow, EarlierRow}

RECURSIVE SeqsUpTo(_, _)
SeqsUpTo(S, n) ==
    IF n = 0 THEN {<<>>}
    ELSE LET shorter == SeqsUpTo(S, n - 1)
         IN  shorter \cup {Append(q, x) : q \in shorter, x \in S}

Stamp(rows) ==
    [i \in 1..Len(rows) |->
        [timestamp        |-> Epoch + i * 60,
         heart_rate       |-> rows[i].heart_rate,
         blood_oxygen     |-> rows[i].blood_oxygen,
         steps            |-> rows[i].steps,
         sleep_quality    |-> rows[i].sleep_quality,
         stress_level     |-> rows[i].stress_level,
         body_temperature |-> rows[i].body_temperature]]

Frame(rows) ==
    [kind |-> "frame", rows |-> rows, has_anomaly |-> FALSE, anomaly |-> <<>>]

LoadedFrames ==
    {Frame(Stamp(Append(e, r))) :
        e \in SeqsUpTo(EarlierRows, MaxLoadedRows - 1), r \in LatestRows}

PureInit ==
    /\ now = Epoch
    /\ data \in LoadedFrames
    /\ monitor = NewMonitor
    /\ last = NoCall
    /\ session = NoSession
    /\ pc = "off"
    /\ event = "none"

PureNext ==
    \/ Score
    \/ Insights

PureSpec == PureInit /\ [][PureNext]_vars

---------------------------------------------------------------------------
(* The dashboard: main() runs from its first line on every widget event    *)
(* and on every st.rerun(), over the st.session_state of one browser        *)
(* session.  pc is the script's position:                                   *)
(*   start          line 197, the session_state test                        *)
(*   init_detect    line 200, after the first generate_sample_data          *)
(*   sidebar        line 207, the sidebar widgets                           *)
(*   button_detect  line 210, after the button's generate_sample_data       *)
(*   render         line 221, the dashboard reads st.session_state.data     *)
(*   tail           line 397, the real-time test                            *)
(*   idle           the script has ended and waits for an event             *)

Events == {"generate", "start_rt", "stop_rt", "report"}

SessionInit ==
    /\ now = Epoch
    /\ data = NoData
    /\ monitor = NoMonitor
    /\ last = NoCall
    /\ session = NoSession
    /\ pc = "start"
    /\ event = "load"

\* the generated frame kept as it is, undetected
StoreUndetected(d, m) == [data |-> d, monitor |-> m]

\* st.session_state.data = st.session_state.health_monitor.detect_anomalies(
\* st.session_state.data), on the frame generated the line before
StoreDetected(d, m) == DetectAnomalies(d, m)

\* lines 197-199: a new session gets its HealthMonitor and 30 days of data
InitGenerate ==
    /\ pc = "start" /\ ~session.has_monitor
    /\ session' = [session EXCEPT !.has_monitor = TRUE]
    /\ monitor' = NewMonitor
    /\ data' = GenerateSampleData(DefaultDays, DefaultSamplesPerDay, now).ret
    /\ pc' = "init_detect"
    /\ UNCHANGED <<now, last, event>>

\* line 200
InitDetect ==
    /\ pc = "init_detect"
    /\ data' = StoreDetected(data, monitor).data
    /\ monitor' = StoreDetected(data, monitor).monitor
    /\ pc' = "sidebar"
    /\ UNCHANGED <<now, last, session, event>>

\* line 197 in a session that has its monitor
InitSkip ==
    /\ pc = "start" /\ session.has_monitor
    /\ pc' = "sidebar"
    /\ UNCHANGED <<now, data, monitor, last, session, event>>

\* lines 207-209: the button was pressed, with the slider at some days
ButtonGenerate(days) ==
    /\ pc = "sidebar" /\ event = "generate"
    /\ data' = GenerateSampleData(days, DefaultSamplesPerDay, now).ret
    /\ pc' = "button_detect"
    /\ UNCHANGED <<now, monitor, last, session, event>>

\* lines 210-211: detection, then st.rerun() starts the script again
ButtonDetect ==
    /\ pc = "button_detect"
    /\ data' = StoreDetected(data, monitor).data
    /\ monitor' = StoreDetected(data, monitor).monitor
    /\ pc' = "start"
    /\ event' = "rerun"
    /\ UNCHANGED <<now, last, session>>

\* lines 208-218 when the generate button was not the event
Sidebar ==
    /\ pc = "sidebar" /\ event # "generate"
    /\ session' = [session EXCEPT !.real_time =
                      IF event = "start_rt" THEN "on"
                      ELSE IF event = "stop_rt" THEN "off"
                      ELSE @]
    /\ pc' = "render"
    /\ UNCHANGED <<now, data, monitor, last, event>>

\* lines 221-394: the score, the anomaly rows (data['anomaly'] raises
\* KeyError on a frame without the column) and the insights are displayed
Render ==
    /\ pc = "render"
    /\ IF IsFrame(data) /\ data.has_anomaly
       THEN /\ last' = [op |-> "render", raised |-> FALSE,
                        score |-> CalculateHealthScore(data),
                        anomalies |-> Cardinality({i \in 1..Len(data.rows) :
                                                      data.anomaly[i]}),
                        insights |-> GenerateHealthInsights(data)]
            /\ pc' = "tail"
       ELSE /\ last' = [op |-> "render", raised |-> TRUE]
            /\ pc' = "idle"
    /\ UNCHANGED <<now, data, monitor, session, event>>

\* lines 397-399: time.sleep(5); st.rerun()
RealTimeRerun ==
    /\ pc = "tail" /\ session.real_time = "on"
    /\ pc' = "start"
    /\ event' = "rerun"
    /\ UNCHANGED <<now, data, monitor, last, session>>

\* line 397 with real-time mode unset or off: the script ends
ScriptEnd ==
    /\ pc = "tail" /\ session.real_time # "on"
    /\ pc' = "idle"
    /\ UNCHANGED <<now, data, monitor, last, session, event>>

\* a widget event starts the script, also during the real-time sleep
UserEvent(e) ==
    /\ pc = "idle" \/ (pc = "tail" /\ session.real_time = "on")
    /\ pc' = "start"
    /\ event' = e
    /\ UNCHANGED <<now, data, monitor, last, session>>

\* time passes while the script waits or sleeps
SessionTick ==
    /\ pc \in {"idle", "tail"}
    /\ now < Epoch + MaxTicks * TickMinutes
    /\ now' = now + TickMinutes
    /\ UNCHANGED <<data, monitor, last, session, pc, event>>

SessionNext ==
    \/ InitGenerate
    \/ InitDetect
    \/ InitSkip
    \/ \E d \in SliderMinDays..MaxSliderDays : ButtonGenerate(d)
    \/ ButtonDetect
    \/ Sidebar
    \/ Render
    \/ RealTimeRerun
    \/ ScriptEnd
    \/ \E e \in Events : UserEvent(e)
    \/ SessionTick

SessionSpec == SessionInit /\ [][SessionNext]_vars

---------------------------------------------------------------------------
(* Properties *)

\* the domain the data model states for each field of a sample
InDomain(r) ==
    /\ r.heart_rate >= 50 /\ r.heart_rate <= 120
    /\ r.blood_oxygen >= 850 /\ r.blood_oxygen <= 1000
    /\ r.steps >= 0
    /\ r.sleep_quality >= 0 /\ r.sleep_quality <= 100
    /\ r.stress_level >= 0 /\ r.stress_level <= 100
    /\ r.body_temperature >= 960 /\ r.body_temperature <= 1020

Returned(op) == last.op = op /\ ~last.raised

PositiveArgs == last.days >= 1 /\ last.samples_per_day >= 1

Distinct(q) == \A i, j \in 1..Len(q) : q[i] = q[j] => i = j

\* C1: every sample of a dataset generate_sample_data returns for days >= 1
\* and samples_per_day >= 1 has every field inside its domain, the samples
\* picked for outlier injection included.
C1_GeneratedInDomain ==
    (Returned("generate") /\ PositiveArgs) =>
        \A i \in 1..Len(last.ret.rows) : InDomain(last.ret.rows[i])

\* C2: two generate_sample_data calls with the same days and
\* samples_per_day return identical datasets, whenever they are made.
C2_GenerateDeterministic ==
    [][(/\ last.op = "generate" /\ ~last.raised
        /\ last'.op = "generate" /\ ~last'.raised
        /\ last'.days = last.days
        /\ last'.samples_per_day = last.samples_per_day)
       => last'.ret = last.ret]_vars

\* C7: generate_sample_data with days <= 0 or samples_per_day <= 0 reports
\* an error and returns no dataset.
C7_NonPositiveRejected ==
    (last.op = "generate" /\ (last.days <= 0 \/ last.samples_per_day <= 0))
        => last.raised

\* C8 as stated: for days >= 1 and samples_per_day >= 1 outliers are
\* injected at exactly ceil(0.05 * total_samples) distinct indices.
C8_CeilOutliers ==
    (Returned("generate") /\ PositiveArgs) =>
        /\ Len(last.anomaly_indices) = (last.total + 19) \div 20
        /\ Distinct(last.anomaly_indices)

\* C8 as amended: for days >= 1 and samples_per_day >= 1 outliers are
\* injected at exactly floor(0.05 * total_samples) distinct indices of
\* 0..total_samples-1, so at none when total_samples < 20.
C8_FloorOutliers ==
    (Returned("generate") /\ PositiveArgs) =>
        /\ Len(last.anomaly_indices) = last.total \div 20
        /\ Distinct(last.anomaly_indices)
        /\ \A p \in 1..Len(last.anomaly_indices) :
              last.anomaly_indices[p] \in 0..(last.total - 1)
        /\ (last.total < 20 => last.anomaly_indices = <<>>)

C8_Witness ==
    /\ Returned("generate") /\ PositiveArgs
    /\ last.total % 20 # 0
    /\ Len(last.anomaly_indices) >= 2

\* C5: a detect_anomalies call on a dataset that already carries flags
\* leaves one flag per sample and the same anomaly column as before.
C5_DetectIdempotent ==
    [][(/\ last'.op = "detect" /\ ~last'.raised
        /\ IsFrame(data) /\ data.has_anomaly)
       => (/\ data'.has_anomaly
           /\ Len(data'.anomaly) = Len(data'.rows)
           /\ data'.anomaly = data.anomaly)]_vars

C5_Witness ==
    /\ Returned("detect") /\ last.had_anomaly
    /\ \E i \in 1..Len(data.anomaly) : data.anomaly[i]
    /\ \E i \in 1..Len(data.anomaly) : ~data.anomaly[i]

\* C9: detect_anomalies, calculate_health_score and generate_health_insights
\* leave the rows (their number, order, timestamps and six fields) as they
\* are; detect_anomalies changes the anomaly column only, the other two
\* change nothing.
C9_FrameEffect ==
    [][(last'.op \in {"detect", "score", "insights"})
       => (/\ IsFrame(data) /\ IsFrame(data')
           /\ data'.rows = data.rows
           /\ (last'.op # "detect" => data' = data /\ monitor' = monitor))]_vars

C9_Witness ==
    /\ Returned("insights")
    /\ data.has_anomaly
    /\ Len(data.rows) > 1
    /\ \E i \in 1..Len(data.anomaly) : data.anomaly[i]

\* the rule category a message belongs to, in the order the rules are written
Category(msg) ==
    CASE msg \in {"hr_elevated", "hr_great"}           -> 1
      [] msg \in {"oxygen_low", "oxygen_healthy"}      -> 2
      [] msg \in {"activity_low", "activity_great"}    -> 3
      [] msg \in {"sleep_poor", "sleep_excellent"}     -> 4
      [] msg \in {"stress_high", "stress_managed"}     -> 5

\* C3: for a non-empty dataset whose latest sample is in its domain,
\* calculate_health_score returns a value in [0,100]; each of the six
\* sub-scores lies in [0,100] and the six weights sum to 1.
C3_ScoreInRange ==
    (Returned("score") /\ InDomain(Latest(data))) =>
        /\ last.value >= 0 /\ last.value <= 1000
        /\ \A k \in 1..6 : /\ Scores(Latest(data))[k] >= 0
                           /\ Scores(Latest(data))[k] <= 100000
        /\ Len(Weights) = 6
        /\ Weights[1] + Weights[2] + Weights[3] + Weights[4] + Weights[5]
              + Weights[6] = 100

C3_Witness ==
    /\ Returned("score") /\ InDomain(Latest(data))
    /\ Latest(data).blood_oxygen = 1000
    /\ last.value = 1000

\* C4 as stated: for the latest sample heart_rate=70, blood_oxygen=98,
\* steps=1000, sleep_quality=8, stress_level=3, body_temperature=98.6 the
\* score is between 98 and 100.
IsScenario(r) ==
    /\ r.heart_rate = 70 /\ r.blood_oxygen = 980 /\ r.steps = 1000
    /\ r.sleep_quality = 80 /\ r.stress_level = 30
    /\ r.body_temperature = 986

C4_ScenarioScore98 ==
    (Returned("score") /\ IsScenario(Latest(data))) =>
        (last.value >= 980 /\ last.value <= 1000)

\* C4 as amended: for that latest sample the score is 91.5, whatever the
\* earlier samples are.
C4_ScenarioScore915 ==
    (Returned("score") /\ IsScenario(Latest(data))) => last.value = 915

C4_Witness ==
    /\ Returned("score") /\ IsScenario(Latest(data))
    /\ Len(data.rows) > 1
    /\ ~IsScenario(data.rows[1])

\* C6: generate_health_insights emits at most one message per rule
\* category, and the messages come in the order heart-rate, oxygen,
\* activity, sleep, stress.
C6_OnePerCategory ==
    Returned("insights") =>
        \A i, j \in 1..Len(last.value) :
            i < j => Category(last.value[i]) < Category(last.value[j])

C6_Witness ==
    /\ Returned("insights")
    /\ Len(last.value) = 5
    /\ last.value[1] = "hr_elevated"
    /\ last.value[2] = "oxygen_low"

\* C10: whenever the dashboard reads the session's dataset, the dataset
\* carries the flags detect_anomalies computes on exactly that dataset; and
\* only the two generate-and-detect sequences change the stored dataset, so
\* real-time reruns and the start, stop and report events leave it as it is.
C10_RenderedDataIsDetected ==
    /\ [](pc = "render" =>
            /\ IsFrame(data) /\ data.has_anomaly
            /\ Len(data.anomaly) = Len(data.rows)
            /\ data.anomaly = DetectAnomalies(Frame(data.rows), NewMonitor).data.anomaly)
    /\ [][data' # data =>
            \/ pc = "start" /\ ~session.has_monitor
            \/ pc = "init_detect"
            \/ pc = "sidebar" /\ event = "generate"
            \/ pc = "button_detect"]_vars

C10_Witness ==
    /\ pc = "render"
    /\ event = "rerun"
    /\ session.real_time = "on"
    /\ Len(data.rows) # DefaultDays * DefaultSamplesPerDay
    /\ \E i \in 1..Len(data.rows) : data.anomaly[i]

===========================================================================
